---- MODULE Spec2Model ----
(***************************************************************************)
(* ParkingLot (src/LLD.cpp): a multi-floor parking lot whose public        *)
(* operations run under one mutex.  Floors, spots and the two maps are the *)
(* state; every public method of ParkingLot is a sequence of steps taken   *)
(* by a calling thread between the acquisition and the release of mtx.     *)
(***************************************************************************)
EXTENDS Integers, Sequences, FiniteSets, TLC

\* ---------------------------------------------------------------- bounds
MaxFloors == 2
MaxSpots == 3
NumThreads == 2
MaxListed == 2

\* Inputs of the command layer: license plates and vehicle types.
Plates == {"A", "B", "C"}
VehicleType == {"Bike", "Car", "Truck"}
NoPlate == ""
NoType == "none"

\* The caller of the command loop of main(), and the worker threads.
MainThread == 1
Workers == 1..NumThreads
Unlimited == -1
NoThread == 0

VARIABLES
  floors,            \* ParkingLot::floors: floor number -> spot number -> ParkingSpot
  vehicleLocations,  \* ParkingLot::vehicleLocations: plate -> (floorNumber, spotNumbers)
  vehiclesMap,       \* ParkingLot::vehiclesMap: plate -> Vehicle
  heap,              \* the plates whose Vehicle, handed to the lot by park, is allocated
  mtx,               \* ParkingLot::mtx: the thread holding it, or NoThread
  pc,                \* each thread's position in the method it is running
  op,                \* each thread's current call: method name and arguments
  local,             \* each thread's locals: floor iterator and availableSpots
  result,            \* what each thread's last call returned and printed
  callsLeft,         \* calls a thread may still make (Unlimited for main's loop)
  pre,               \* history: the lot as it was when the thread took the lock
  lastLocker,        \* history: the thread whose call took the lock last
  prevLocker,        \* history: per thread, whose call took the lock just before its own
  overlap,           \* history: per thread, the threads whose calls overlapped its own
  atLock,            \* history: per thread, what held of the lot as its call took the lock
  rt,                \* history: a successful park directly followed by a remove of its plate
  parkedAt           \* history: per parked plate, the floor and spots its park reported

lotVars == <<floors, vehicleLocations, vehiclesMap, heap>>
callVars == <<pre, lastLocker, prevLocker, overlap, atLock, rt>>
histVars == <<pre, lastLocker, prevLocker, overlap, atLock, rt, parkedAt>>
vars == <<floors, vehicleLocations, vehiclesMap, heap, mtx, pc, op, local, result,
          callsLeft, pre, lastLocker, prevLocker, overlap, atLock, rt, parkedAt>>

Threads == DOMAIN pc

\* ------------------------------------------------------------- data model
FreeSpot == [isOccupied |-> FALSE, parkedVehicle |-> NoPlate]

NewFloor(numSpots) == [i \in 0..(numSpots - 1) |-> FreeSpot]

NewParkingLot(numFloors, spotsPerFloor) ==
  [f \in 0..(numFloors - 1) |-> NewFloor(spotsPerFloor)]

NewVehicle(licensePlate, type) == [licensePlate |-> licensePlate, type |-> type]

EmptyMap == [p \in {} |-> 0]

Size(floor) == Cardinality(DOMAIN floor)

MapErase(m, k) == [x \in (DOMAIN m) \ {k} |-> m[x]]

MapPut(m, k, v) == [x \in (DOMAIN m) \cup {k} |-> IF x = k THEN v ELSE m[x]]

\* ---------------------------------------------------------------- Vehicle
\* Faulty variant: every class is given one spot.
getRequiredSpotsAlwaysOne(vehicle) == 1

getRequiredSpots(vehicle) == IF vehicle.type = "Truck" THEN 2 ELSE 1

\* ------------------------------------------------------------ ParkingSpot
assignVehicle(spot, licensePlate) ==
  IF spot.isOccupied
    THEN spot
    ELSE [isOccupied |-> TRUE, parkedVehicle |-> licensePlate]

\* Faulty variant: the spot is freed but parkedVehicle is not cleared.
SpotRemoveVehicleKeepPlate(spot) ==
  IF ~spot.isOccupied
    THEN spot
    ELSE [isOccupied |-> FALSE, parkedVehicle |-> spot.parkedVehicle]

SpotRemoveVehicle(spot) ==
  IF ~spot.isOccupied
    THEN spot
    ELSE [isOccupied |-> FALSE, parkedVehicle |-> NoPlate]

\* ------------------------------------------------------------------ Floor
RECURSIVE ScanOneShort(_, _)
\* Faulty variant: the loop never looks at the last spot of the floor.
ScanOneShort(floor, i) ==
  IF i >= Size(floor) - 1 THEN <<>>
  ELSE IF ~floor[i].isOccupied THEN <<i>>
  ELSE ScanOneShort(floor, i + 1)

RECURSIVE ScanOne(_, _)
\* The loop of the required == 1 branch: the first spot that is not occupied.
ScanOne(floor, i) ==
  IF i >= Size(floor) THEN <<>>
  ELSE IF ~floor[i].isOccupied THEN <<i>>
  ELSE ScanOne(floor, i + 1)

RECURSIVE ScanTwoShort(_, _)
\* Faulty variant: the loop stops one pair early (i < spots.size() - 2).
ScanTwoShort(floor, i) ==
  IF i >= Size(floor) - 2 THEN <<>>
  ELSE IF ~floor[i].isOccupied /\ ~floor[i + 1].isOccupied THEN <<i, i + 1>>
  ELSE ScanTwoShort(floor, i + 1)

RECURSIVE ScanTwo(_, _)
\* The loop of the required == 2 branch on a floor that has spots:
\* i runs while i < spots.size() - 1.
ScanTwo(floor, i) ==
  IF i >= Size(floor) - 1 THEN <<>>
  ELSE IF ~floor[i].isOccupied /\ ~floor[i + 1].isOccupied THEN <<i, i + 1>>
  ELSE ScanTwo(floor, i + 1)

\* Faulty variant: the scan runs from the last spot down, so it proposes the last fit.
findAvailableSpotsLastFit(floor, vehicle) ==
  LET required == getRequiredSpots(vehicle)
      free(j) == \A d \in 0..(required - 1) :
                   (j + d) \in DOMAIN floor /\ ~floor[j + d].isOccupied
      starts == {j \in DOMAIN floor : free(j)}
      last == CHOOSE j \in starts : \A h \in starts : h <= j
  IN IF starts = {} THEN <<>> ELSE [d \in 1..required |-> last + d - 1]

findAvailableSpots(floor, vehicle) ==
  LET required == getRequiredSpots(vehicle) IN
  IF required = 1 THEN ScanOne(floor, 0)
  ELSE IF required = 2 THEN ScanTwo(floor, 0)
  ELSE <<>>

\* spots.size() - 1 is unsigned: on a floor without spots it wraps to SIZE_MAX and
\* the required == 2 loop reads spots[0] of an empty vector.
ReadsOutOfRange(floor, vehicle) ==
  getRequiredSpots(vehicle) = 2 /\ Size(floor) = 0

\* What such a read can leave in availableSpots when the process survives it.
GarbageSpots == {<<g, h>> : g, h \in {-1, 0, 1}}

\* The outcomes of one call of findAvailableSpots: its result, or, where it reads
\* out of range, a crash or two numbers read from whatever memory was there.
FindOutcomes(floor, vehicle) ==
  IF ReadsOutOfRange(floor, vehicle)
    THEN {[crashed |-> TRUE, spots |-> <<>>]}
         \cup {[crashed |-> FALSE, spots |-> s] : s \in GarbageSpots}
    ELSE {[crashed |-> FALSE, spots |-> findAvailableSpots(floor, vehicle)]}

RECURSIVE AssignAll(_, _, _)
\* The second loop of Floor::parkVehicle: assignVehicle on each listed spot in turn.
AssignAll(floor, licensePlate, spotNumbers) ==
  IF spotNumbers = <<>> THEN floor
  ELSE AssignAll([floor EXCEPT ![Head(spotNumbers)] = assignVehicle(@, licensePlate)],
                 licensePlate, Tail(spotNumbers))

RECURSIVE AssignWhileGood(_, _, _)
AssignWhileGood(floor, licensePlate, spotNumbers) ==
  IF spotNumbers = <<>> THEN [ok |-> TRUE, floor |-> floor]
  ELSE LET idx == Head(spotNumbers) IN
       IF idx < 0 \/ idx >= Size(floor) \/ floor[idx].isOccupied
         THEN [ok |-> FALSE, floor |-> floor]
         ELSE AssignWhileGood([floor EXCEPT ![idx] = assignVehicle(@, licensePlate)],
                              licensePlate, Tail(spotNumbers))

\* Faulty variant: one loop that assigns each spot as soon as it has verified it.
FloorParkVehicleEager(floor, vehicle, spotNumbers) ==
  AssignWhileGood(floor, vehicle.licensePlate, spotNumbers)

\* Floor::parkVehicle: whether it returned true, and the floor it leaves.
FloorParkVehicle(floor, vehicle, spotNumbers) ==
  LET bad(idx) == idx < 0 \/ idx >= Size(floor) \/ floor[idx].isOccupied IN
  IF \E k \in 1..Len(spotNumbers) : bad(spotNumbers[k])
    THEN [ok |-> FALSE, floor |-> floor]
    ELSE [ok |-> TRUE, floor |-> AssignAll(floor, vehicle.licensePlate, spotNumbers)]

\* Faulty variant: the loop stops at the first spot it releases.
FloorRemoveVehicleFirstOnly(floor, licensePlate) ==
  LET owned(i) == floor[i].isOccupied /\ floor[i].parkedVehicle = licensePlate
      first(i) == owned(i) /\ \A h \in DOMAIN floor : owned(h) => i <= h
  IN [removed |-> \E i \in DOMAIN floor : owned(i),
      floor |-> [i \in DOMAIN floor |->
                   IF first(i) THEN SpotRemoveVehicle(floor[i]) ELSE floor[i]]]

\* Faulty variant: the plate of the spot is not compared, every occupied spot is released.
FloorRemoveVehicleAnyPlate(floor, licensePlate) ==
  [removed |-> \E i \in DOMAIN floor : floor[i].isOccupied,
   floor |-> [i \in DOMAIN floor |-> SpotRemoveVehicle(floor[i])]]

\* Floor::removeVehicle: whether it returned true, and the floor it leaves.
FloorRemoveVehicle(floor, licensePlate) ==
  LET owned(i) == floor[i].isOccupied /\ floor[i].parkedVehicle = licensePlate IN
  [removed |-> \E i \in DOMAIN floor : owned(i),
   floor |-> [i \in DOMAIN floor |->
                IF owned(i) THEN SpotRemoveVehicle(floor[i]) ELSE floor[i]]]

\* Faulty variant: the test is inverted, the occupied spots are counted.
availableSpotsCountOccupied(floor) ==
  Cardinality({i \in DOMAIN floor : floor[i].isOccupied})

availableSpotsCount(floor) ==
  Cardinality({i \in DOMAIN floor : ~floor[i].isOccupied})

\* ------------------------------------------------------- calls and results
NoOp == [name |-> "none", plate |-> NoPlate, type |-> NoType]

\* The commands main() dispatches: it refuses an empty plate and an unknown type.
Commands ==
  {[name |-> "park", plate |-> p, type |-> ty] : p \in Plates, ty \in VehicleType}
  \cup {[name |-> n, plate |-> p, type |-> NoType] : n \in {"remove", "find"}, p \in Plates}
  \cup {[name |-> n, plate |-> NoPlate, type |-> NoType] : n \in {"available", "isFull"}}

NoLocal == [fi |-> 0, availableSpots |-> <<>>]

NoResult == [ret |-> FALSE, msg |-> "none", floor |-> -1, spots |-> <<>>]

Returned(ret, msg) == [ret |-> ret, msg |-> msg, floor |-> -1, spots |-> <<>>]

ReturnedAt(ret, msg, floor, spots) ==
  [ret |-> ret, msg |-> msg, floor |-> floor, spots |-> spots]

Lot == [floors |-> floors, vehicleLocations |-> vehicleLocations,
        vehiclesMap |-> vehiclesMap, heap |-> heap]

NoSnap == [valid |-> FALSE, lot |-> <<>>]

NoRt == [stage |-> "none", plate |-> NoPlate, lot |-> <<>>]

NumFloors == Cardinality(DOMAIN floors)

\* The contiguous-spot count the specification gives each class.
RequiredCount(type) == IF type = "Truck" THEN 2 ELSE 1

\* The starting indices on a floor of k contiguous free spots.
FitStarts(floor, k) ==
  {j \in DOMAIN floor :
     \A d \in 0..(k - 1) : (j + d) \in DOMAIN floor /\ ~floor[j + d].isOccupied}

\* The floors that have k contiguous free spots.
FitFloors(fl, k) == {f \in DOMAIN fl : FitStarts(fl[f], k) # {}}

Min(S) == CHOOSE x \in S : \A y \in S : x <= y

NoFacts == [absent |-> FALSE, fits |-> {}]

Vehicle(t) == NewVehicle(op[t].plate, op[t].type)

\* ------------------------------------------------------------------- Init
InitLot(numFloorsChoices, spotsPerFloorChoices) ==
  /\ \E numFloors \in numFloorsChoices, spotsPerFloor \in spotsPerFloorChoices :
       floors = NewParkingLot(numFloors, spotsPerFloor)
  /\ vehicleLocations = EmptyMap
  /\ vehiclesMap = EmptyMap
  /\ heap = {}
  /\ mtx = NoThread

\* The calling threads, none of them in a call; callsOf gives each its calls to make.
InitCallersWith(callsOf) ==
  /\ pc = [t \in DOMAIN callsOf |-> "idle"]
  /\ op = [t \in DOMAIN callsOf |-> NoOp]
  /\ local = [t \in DOMAIN callsOf |-> NoLocal]
  /\ result = [t \in DOMAIN callsOf |-> NoResult]
  /\ callsLeft = callsOf
  /\ pre = [t \in DOMAIN callsOf |-> NoSnap]
  /\ lastLocker = NoThread
  /\ prevLocker = [t \in DOMAIN callsOf |-> NoThread]
  /\ overlap = [t \in DOMAIN callsOf |-> {}]
  /\ atLock = [t \in DOMAIN callsOf |-> NoFacts]
  /\ rt = NoRt
  /\ parkedAt = EmptyMap

InitCallers(callers, calls) == InitCallersWith([t \in callers |-> calls])

\* main(): one lot, and the command loop as its only caller.
Init ==
  /\ InitLot(1..MaxFloors, 1..MaxSpots)
  /\ InitCallers({MainThread}, Unlimited)

\* A lot of MaxFloors floors called from worker threads, each thread launched for
\* one call.
InitThreads ==
  /\ InitLot({MaxFloors}, 1..MaxSpots)
  /\ InitCallers(Workers, 1)

\* ------------------------------------------------------- call and locking
EntryOf(name) ==
  CASE name = "park" -> "park_check"
    [] name = "remove" -> "remove_lookup"
    [] name = "available" -> "available"
    [] name = "isFull" -> "is_full"
    [] name = "find" -> "find"

\* A caller starts a call: main() parses a command (and allocates the Vehicle).
Call(t) ==
  /\ pc[t] = "idle"
  /\ callsLeft[t] # 0
  /\ \E c \in Commands : op' = [op EXCEPT ![t] = c]
  /\ pc' = [pc EXCEPT ![t] = "lock"]
  /\ result' = [result EXCEPT ![t] = NoResult]
  /\ callsLeft' = [callsLeft EXCEPT ![t] = IF @ = Unlimited THEN @ ELSE @ - 1]
  /\ overlap' = [u \in Threads |->
                   IF u = t THEN {v \in Threads \ {t} : pc[v] # "idle"}
                   ELSE IF pc[u] # "idle" THEN overlap[u] \cup {t}
                   ELSE overlap[u] \ {t}]
  /\ prevLocker' = [u \in Threads |-> IF prevLocker[u] = t \/ u = t THEN NoThread
                                      ELSE prevLocker[u]]
  /\ lastLocker' = IF lastLocker = t THEN NoThread ELSE lastLocker
  /\ atLock' = [atLock EXCEPT ![t] = NoFacts]
  /\ UNCHANGED <<lotVars, mtx, local, pre, rt, parkedAt>>

\* Faulty variant: the lock is granted whoever holds it.
CanLockAlways(m) == m = m

\* std::mutex: lock() returns only when no thread holds it.
CanLock(m) == m = NoThread

\* lock_guard<mutex> lock(mtx) at the head of every public method.
Lock(t) ==
  /\ pc[t] = "lock"
  /\ CanLock(mtx)
  /\ mtx' = t
  /\ pc' = [pc EXCEPT ![t] = EntryOf(op[t].name)]
  /\ pre' = [pre EXCEPT ![t] = [valid |-> TRUE, lot |-> Lot]]
  /\ prevLocker' = [prevLocker EXCEPT ![t] = lastLocker]
  /\ lastLocker' = t
  /\ atLock' = [atLock EXCEPT ![t] =
                  IF op[t].name \in {"park", "remove"}
                    THEN [absent |-> op[t].plate \notin DOMAIN vehicleLocations,
                          fits |-> {ty \in VehicleType :
                                      FitFloors(floors, RequiredCount(ty)) # {}}]
                    ELSE NoFacts]
  /\ rt' = IF op[t].name = "remove" /\ op[t].plate = rt.plate
                /\ rt.stage \in {"parked", "removed"}
             THEN [rt EXCEPT !.stage = IF @ = "parked" THEN "removing" ELSE "removing again"]
             ELSE NoRt
  /\ UNCHANGED <<lotVars, op, local, result, callsLeft, overlap, parkedAt>>

\* Faulty variant: the method returns on a path that does not release the mutex.
UnlockKeepingMutex(t) ==
  /\ pc[t] = "unlock"
  /\ pc' = [pc EXCEPT ![t] = "idle"]
  /\ local' = [local EXCEPT ![t] = NoLocal]
  /\ pre' = [pre EXCEPT ![t] = NoSnap]
  /\ rt' = NoRt
  /\ UNCHANGED <<lotVars, mtx, op, result, callsLeft, lastLocker, prevLocker, overlap,
                 atLock, parkedAt>>

\* The method returns: lock_guard's destructor releases the mutex.
Unlock(t) ==
  /\ pc[t] = "unlock"
  /\ mtx' = NoThread
  /\ pc' = [pc EXCEPT ![t] = "idle"]
  /\ local' = [local EXCEPT ![t] = NoLocal]
  /\ pre' = [pre EXCEPT ![t] = NoSnap]
  /\ rt' = IF op[t].name = "park" /\ result[t].ret /\ pre[t].valid
             THEN [stage |-> "parked", plate |-> op[t].plate, lot |-> pre[t].lot]
           ELSE IF rt.stage = "removing" /\ op[t].name = "remove"
             THEN [rt EXCEPT !.stage = IF result[t].ret THEN "removed" ELSE "not removed"]
           ELSE NoRt
  /\ UNCHANGED <<lotVars, op, result, callsLeft, lastLocker, prevLocker, overlap, atLock,
                 parkedAt>>

Finish(t, r) ==
  /\ result' = [result EXCEPT ![t] = r]
  /\ pc' = [pc EXCEPT ![t] = "unlock"]

\* ------------------------------------------------ ParkingLot::parkVehicle
\* The loop over the floors moves on: the next floor, or past the last one.
NextFloor(t) ==
  IF local[t].fi + 1 < NumFloors
    THEN /\ local' = [local EXCEPT ![t] = [fi |-> @.fi + 1, availableSpots |-> <<>>]]
         /\ pc' = [pc EXCEPT ![t] = "park_find"]
    ELSE /\ local' = [local EXCEPT ![t] = NoLocal]
         /\ pc' = [pc EXCEPT ![t] = "park_full"]

\* Faulty variant: a plate counts as parked only when the class presented is the recorded one.
AlreadyParkedSameType(t) ==
  /\ op[t].plate \in DOMAIN vehicleLocations
  /\ op[t].plate \in DOMAIN vehiclesMap
  /\ vehiclesMap[op[t].plate].type = op[t].type

\* vehicleLocations.find(vehicle->licensePlate) != vehicleLocations.end()
AlreadyParked(t) == op[t].plate \in DOMAIN vehicleLocations

\* "Check if vehicle is already parked."
ParkCheck(t) ==
  /\ pc[t] = "park_check"
  /\ IF AlreadyParked(t)
       THEN /\ Finish(t, Returned(FALSE, "already parked"))
            /\ UNCHANGED local
       ELSE /\ local' = [local EXCEPT ![t] = NoLocal]
            /\ pc' = [pc EXCEPT ![t] = IF NumFloors = 0 THEN "park_full" ELSE "park_find"]
            /\ UNCHANGED result
  /\ UNCHANGED <<lotVars, mtx, op, callsLeft, histVars>>

\* One iteration of the loop over the floors: floor->findAvailableSpots(vehicle).
ParkFind(t) ==
  /\ pc[t] = "park_find"
  /\ \E out \in FindOutcomes(floors[local[t].fi], Vehicle(t)) :
       IF out.crashed
         THEN /\ pc' = [u \in Threads |-> "crashed"]
              /\ UNCHANGED local
         ELSE IF out.spots # <<>>
           THEN /\ local' = [local EXCEPT ![t].availableSpots = out.spots]
                /\ pc' = [pc EXCEPT ![t] = "park_commit"]
           ELSE NextFloor(t)
  /\ UNCHANGED <<lotVars, mtx, op, result, callsLeft, histVars>>

\* Faulty variant: the lock is dropped once the spots are assigned, before the maps
\* are written.
ParkCommitUnlocking(t) ==
  /\ pc[t] = "park_commit"
  /\ LET r == FloorParkVehicle(floors[local[t].fi], Vehicle(t), local[t].availableSpots) IN
       IF r.ok
         THEN /\ floors' = [floors EXCEPT ![local[t].fi] = r.floor]
              /\ pc' = [pc EXCEPT ![t] = "park_index"]
              /\ mtx' = NoThread
              /\ UNCHANGED local
         ELSE /\ NextFloor(t)
              /\ UNCHANGED <<floors, mtx>>
  /\ UNCHANGED <<vehicleLocations, vehiclesMap, heap, op, result, callsLeft, histVars>>

\* floor->parkVehicle(vehicle, availableSpots) on the floor that proposed spots.
ParkCommit(t) ==
  /\ pc[t] = "park_commit"
  /\ LET r == FloorParkVehicle(floors[local[t].fi], Vehicle(t), local[t].availableSpots) IN
       IF r.ok
         THEN /\ floors' = [floors EXCEPT ![local[t].fi] = r.floor]
              /\ pc' = [pc EXCEPT ![t] = "park_index"]
              /\ UNCHANGED local
         ELSE /\ NextFloor(t)
              /\ UNCHANGED floors
  /\ UNCHANGED <<vehicleLocations, vehiclesMap, heap, mtx, op, result, callsLeft, histVars>>

\* "Save location" and "store the Vehicle pointer", then return true.
ParkIndex(t) ==
  /\ pc[t] = "park_index"
  /\ vehicleLocations' = MapPut(vehicleLocations, op[t].plate,
                                [first |-> local[t].fi, second |-> local[t].availableSpots])
  /\ vehiclesMap' = MapPut(vehiclesMap, op[t].plate, Vehicle(t))
  /\ heap' = heap \cup {op[t].plate}
  /\ Finish(t, ReturnedAt(TRUE, "parked", local[t].fi, local[t].availableSpots))
  /\ parkedAt' = MapPut(parkedAt, op[t].plate,
                        [floor |-> local[t].fi, spots |-> local[t].availableSpots])
  /\ UNCHANGED <<floors, mtx, op, local, callsLeft, callVars>>

\* "Parking Lot Full or no suitable spot available", return false.
ParkFull(t) ==
  /\ pc[t] = "park_full"
  /\ Finish(t, Returned(FALSE, "full"))
  /\ UNCHANGED <<lotVars, mtx, op, local, callsLeft, histVars>>

\* ---------------------------------------------- ParkingLot::removeVehicle
\* Faulty variant: the lookup is vehicleLocations[licensePlate], which inserts an empty
\* entry for a plate that is not there.
RemoveLookupInserting(t) ==
  /\ pc[t] = "remove_lookup"
  /\ vehicleLocations' =
       IF op[t].plate \in DOMAIN vehicleLocations THEN vehicleLocations
       ELSE MapPut(vehicleLocations, op[t].plate, [first |-> 0, second |-> <<>>])
  /\ local' = [local EXCEPT ![t] =
                 [fi |-> vehicleLocations'[op[t].plate].first, availableSpots |-> <<>>]]
  /\ pc' = [pc EXCEPT ![t] = "remove_floor"]
  /\ UNCHANGED <<floors, vehiclesMap, heap, result, mtx, op, callsLeft, histVars>>

RemoveLookup(t) ==
  /\ pc[t] = "remove_lookup"
  /\ IF op[t].plate \notin DOMAIN vehicleLocations
       THEN /\ Finish(t, Returned(FALSE, "not found"))
            /\ UNCHANGED local
       ELSE /\ local' = [local EXCEPT ![t] =
                           [fi |-> vehicleLocations[op[t].plate].first,
                            availableSpots |-> <<>>]]
            /\ pc' = [pc EXCEPT ![t] = "remove_floor"]
            /\ UNCHANGED result
  /\ UNCHANGED <<lotVars, mtx, op, callsLeft, histVars>>

\* Faulty variant: the lock is dropped once the floor has released the spots, before
\* the plate is erased from the maps.
RemoveFloorUnlocking(t) ==
  /\ pc[t] = "remove_floor"
  /\ LET r == FloorRemoveVehicle(floors[local[t].fi], op[t].plate) IN
       /\ floors' = [floors EXCEPT ![local[t].fi] = r.floor]
       /\ IF r.removed
            THEN /\ pc' = [pc EXCEPT ![t] = "remove_erase"]
                 /\ mtx' = NoThread
                 /\ UNCHANGED result
            ELSE /\ Finish(t, Returned(FALSE, ""))
                 /\ UNCHANGED mtx
  /\ UNCHANGED <<vehicleLocations, vehiclesMap, heap, op, local, callsLeft, histVars>>

\* floors[floorNumber]->removeVehicle(licensePlate); false falls through to return false.
RemoveFloor(t) ==
  /\ pc[t] = "remove_floor"
  /\ LET r == FloorRemoveVehicle(floors[local[t].fi], op[t].plate) IN
       /\ floors' = [floors EXCEPT ![local[t].fi] = r.floor]
       /\ IF r.removed
            THEN /\ pc' = [pc EXCEPT ![t] = "remove_erase"]
                 /\ UNCHANGED result
            ELSE Finish(t, Returned(FALSE, ""))
  /\ UNCHANGED <<vehicleLocations, vehiclesMap, heap, mtx, op, local, callsLeft, histVars>>

\* Faulty variant: the plate is erased from vehicleLocations only.
RemoveEraseKeepVehicle(t) ==
  /\ pc[t] = "remove_erase"
  /\ vehicleLocations' = MapErase(vehicleLocations, op[t].plate)
  /\ Finish(t, ReturnedAt(TRUE, "removed", local[t].fi, <<>>))
  /\ parkedAt' = MapErase(parkedAt, op[t].plate)
  /\ UNCHANGED <<floors, vehiclesMap, heap, mtx, op, local, callsLeft, callVars>>

\* Faulty variant: the pointer is erased from vehiclesMap without delete.
RemoveEraseLeaking(t) ==
  /\ pc[t] = "remove_erase"
  /\ vehicleLocations' = MapErase(vehicleLocations, op[t].plate)
  /\ vehiclesMap' = MapErase(vehiclesMap, op[t].plate)
  /\ Finish(t, ReturnedAt(TRUE, "removed", local[t].fi, <<>>))
  /\ parkedAt' = MapErase(parkedAt, op[t].plate)
  /\ UNCHANGED <<floors, heap, mtx, op, local, callsLeft, callVars>>

\* Erase the plate from both maps (deleting the Vehicle), return true.
RemoveErase(t) ==
  /\ pc[t] = "remove_erase"
  /\ vehicleLocations' = MapErase(vehicleLocations, op[t].plate)
  /\ vehiclesMap' = IF op[t].plate \in DOMAIN vehiclesMap
                      THEN MapErase(vehiclesMap, op[t].plate)
                      ELSE vehiclesMap
  /\ heap' = IF op[t].plate \in DOMAIN vehiclesMap THEN heap \ {op[t].plate} ELSE heap
  /\ Finish(t, ReturnedAt(TRUE, "removed", local[t].fi, <<>>))
  /\ parkedAt' = MapErase(parkedAt, op[t].plate)
  /\ UNCHANGED <<floors, mtx, op, local, callsLeft, callVars>>

\* ------------------------------------------------------------ the queries
\* ParkingLot::getAvailableSpotsPerFloor: one count per floor, in floor order.
GetAvailableSpotsPerFloor(t) ==
  /\ pc[t] = "available"
  /\ Finish(t, ReturnedAt(TRUE, "available", -1,
                 [k \in 1..NumFloors |-> availableSpotsCount(floors[k - 1])]))
  /\ UNCHANGED <<lotVars, mtx, op, local, callsLeft, histVars>>

\* Faulty variant: only the first floor is looked at.
isFullFirstFloor(fl) == ~(0 \in DOMAIN fl /\ availableSpotsCount(fl[0]) > 0)

\* The loop of ParkingLot::isFull: false at the first floor with a free spot.
isFull(fl) == ~\E f \in DOMAIN fl : availableSpotsCount(fl[f]) > 0

IsFull(t) ==
  /\ pc[t] = "is_full"
  /\ Finish(t, Returned(isFull(floors), "is full"))
  /\ UNCHANGED <<lotVars, mtx, op, local, callsLeft, histVars>>

\* ParkingLot::findVehicle: prints the recorded location, or "not found".
FindVehicle(t) ==
  /\ pc[t] = "find"
  /\ IF op[t].plate \in DOMAIN vehicleLocations
       THEN Finish(t, ReturnedAt(TRUE, "found", vehicleLocations[op[t].plate].first,
                                 vehicleLocations[op[t].plate].second))
       ELSE Finish(t, Returned(FALSE, "not found"))
  /\ UNCHANGED <<lotVars, mtx, op, local, callsLeft, histVars>>

\* ------------------------------------------------------------ main's return
\* The command loop ends (exit, or end of input) and main returns: ~ParkingLot
\* deletes every Floor, each Floor its spots, and the members are destroyed, the
\* two maps with their entries. Nothing deletes the Vehicles vehiclesMap points to.
Shutdown(t) ==
  /\ t = MainThread
  /\ \A u \in Threads : pc[u] = "idle"
  /\ floors' = NewParkingLot(0, 0)
  /\ vehicleLocations' = EmptyMap
  /\ vehiclesMap' = EmptyMap
  /\ pc' = [u \in Threads |-> "exited"]
  /\ rt' = NoRt
  /\ UNCHANGED <<heap, mtx, op, local, result, callsLeft, pre, lastLocker, prevLocker,
                 overlap, atLock, parkedAt>>

\* ------------------------------------------------- Floor, called directly
\* The vector<int> arguments of Floor::parkVehicle: up to MaxListed spot numbers,
\* on the floor or not.
SpotNumberLists == UNION {[1..n -> -1..MaxSpots] : n \in 0..MaxListed}

\* The states of a spot: free, or holding one of the plates.
Spots == {FreeSpot} \cup {[isOccupied |-> TRUE, parkedVehicle |-> p] : p \in Plates}

\* A caller holds one Floor, of any size the constructor builds and with any of the
\* occupancies its methods can bring about, and is about to call parkVehicle on it
\* with some vehicle and some list.
InitFloor ==
  /\ \E numSpots \in 0..MaxSpots :
       \E floor \in [DOMAIN NewFloor(numSpots) -> Spots] : floors = [f \in {0} |-> floor]
  /\ vehicleLocations = EmptyMap
  /\ vehiclesMap = EmptyMap
  /\ heap = {}
  /\ mtx = NoThread
  /\ pc = [t \in {MainThread} |-> "floor_call"]
  /\ \E p \in Plates :
       op = [t \in {MainThread} |-> [name |-> "Floor::parkVehicle", plate |-> p,
                                      type |-> "Car"]]
  /\ \E spotNumbers \in SpotNumberLists :
       local = [t \in {MainThread} |-> [fi |-> 0, availableSpots |-> spotNumbers]]
  /\ result = [t \in {MainThread} |-> NoResult]
  /\ callsLeft = [t \in {MainThread} |-> 1]
  /\ pre = [t \in {MainThread} |-> NoSnap]
  /\ lastLocker = NoThread
  /\ prevLocker = [t \in {MainThread} |-> NoThread]
  /\ overlap = [t \in {MainThread} |-> {}]
  /\ atLock = [t \in {MainThread} |-> NoFacts]
  /\ rt = NoRt
  /\ parkedAt = EmptyMap

\* floor.parkVehicle(vehicle, spotNumbers).
FloorPark(t) ==
  /\ pc[t] = "floor_call"
  /\ LET r == FloorParkVehicle(floors[0], Vehicle(t), local[t].availableSpots) IN
       /\ floors' = [floors EXCEPT ![0] = r.floor]
       /\ result' = [result EXCEPT ![t] = Returned(r.ok, "floor park")]
  /\ pc' = [pc EXCEPT ![t] = "floor_done"]
  /\ pre' = [pre EXCEPT ![t] = [valid |-> TRUE, lot |-> Lot]]
  /\ UNCHANGED <<vehicleLocations, vehiclesMap, heap, mtx, op, local, callsLeft,
                 lastLocker, prevLocker, overlap, atLock, rt, parkedAt>>

FloorNext == \E t \in Threads : FloorPark(t)

SpecFloor == InitFloor /\ [][FloorNext]_vars

\* ------------------------------------------------------------------- Next
Next ==
  \/ \E t \in Threads : Call(t)
  \/ \E t \in Threads : Lock(t)
  \/ \E t \in Threads : ParkCheck(t)
  \/ \E t \in Threads : ParkFind(t)
  \/ \E t \in Threads : ParkCommit(t)
  \/ \E t \in Threads : ParkIndex(t)
  \/ \E t \in Threads : ParkFull(t)
  \/ \E t \in Threads : RemoveLookup(t)
  \/ \E t \in Threads : RemoveFloor(t)
  \/ \E t \in Threads : RemoveErase(t)
  \/ \E t \in Threads : GetAvailableSpotsPerFloor(t)
  \/ \E t \in Threads : IsFull(t)
  \/ \E t \in Threads : FindVehicle(t)
  \/ \E t \in Threads : Unlock(t)

Spec == Init /\ [][Next]_vars

SpecThreads == InitThreads /\ [][Next]_vars

\* A step of thread t inside the method it is running, from the first statement
\* after the lock is taken to the release of the lock at return.
Step(t) ==
  \/ ParkCheck(t) \/ ParkFind(t) \/ ParkCommit(t) \/ ParkIndex(t) \/ ParkFull(t)
  \/ RemoveLookup(t) \/ RemoveFloor(t) \/ RemoveErase(t)
  \/ GetAvailableSpotsPerFloor(t) \/ IsFull(t) \/ FindVehicle(t)
  \/ Unlock(t)

\* The worker threads under a scheduler that keeps running every thread that can
\* take a step, and a mutex that is acquired fairly: a thread waiting in lock() gets
\* the mutex if it is free again and again.
SpecLive ==
  /\ InitThreads
  /\ [][Next]_vars
  /\ \A t \in Workers : WF_vars(Step(t)) /\ SF_vars(Lock(t))

\* Two threads on a lot of MaxFloors floors: the first makes two calls, the second
\* one call, which may overlap either of them.
Racers == {1, 2}

InitRace ==
  /\ InitLot({MaxFloors}, 1..MaxSpots)
  /\ InitCallersWith([t \in Racers |-> IF t = 1 THEN 2 ELSE 1])

SpecRace == InitRace /\ [][Next]_vars

\* main() as written: numFloors and spotsPerFloor are whatever was read from the
\* input, none or negative included (the constructors' loops then build nothing),
\* and the lot is destroyed when main returns.
InitMain ==
  /\ InitLot(0..MaxFloors, 0..MaxSpots)
  /\ InitCallers({MainThread}, Unlimited)

NextMain ==
  \/ Next
  \/ \E t \in Threads : Shutdown(t)

SpecMain == InitMain /\ [][NextMain]_vars

\* ------------------------------------------------------------- properties
\* No thread is inside a method body: every operation begun has completed its work.
Completed == \A t \in Threads : pc[t] \in {"idle", "lock", "unlock"}

Occupied(f, i, p) == floors[f][i].isOccupied /\ floors[f][i].parkedVehicle = p

Range(seq) == {seq[k] : k \in 1..Len(seq)}

Listed(f, i, p) ==
  /\ p \in DOMAIN vehicleLocations
  /\ vehicleLocations[p].first = f
  /\ i \in Range(vehicleLocations[p].second)

\* Every occupied spot is listed under its plate, every listed spot is occupied by
\* the plate listing it, and no free spot is listed.
IndexMatchesSpots ==
  /\ \A f \in DOMAIN floors : \A i \in DOMAIN floors[f] :
       IF floors[f][i].isOccupied
         THEN Listed(f, i, floors[f][i].parkedVehicle)
         ELSE \A p \in DOMAIN vehicleLocations : ~Listed(f, i, p)
  /\ \A p \in DOMAIN vehicleLocations :
       /\ vehicleLocations[p].first \in DOMAIN floors
       /\ \A i \in Range(vehicleLocations[p].second) :
            /\ i \in DOMAIN floors[vehicleLocations[p].first]
            /\ Occupied(vehicleLocations[p].first, i, p)

\* No two entries of vehicleLocations list the same spot of the same floor.
NoSharedSpot ==
  \A p, q \in DOMAIN vehicleLocations :
    (p # q /\ vehicleLocations[p].first = vehicleLocations[q].first)
      => Range(vehicleLocations[p].second) \cap Range(vehicleLocations[q].second) = {}

\* The thread's call has decided its result.
HasReturned(t) == pc[t] \in {"unlock", "idle"} /\ result[t].msg # "none"

ParkReturns(t) == pc[t] = "unlock" /\ op[t].name = "park" /\ pre[t].valid

RemoveReturns(t) == pc[t] = "unlock" /\ op[t].name = "remove" /\ pre[t].valid

\* C1: after every completed operation a spot (f, i) is occupied by plate p iff
\* vehicleLocations[p] exists, has floor f and lists i; so the spots of a plate are
\* exactly its listed ones, and no two entries share a (floor, spot) pair.
C1_SpotsMatchIndex == Completed => (IndexMatchesSpots /\ NoSharedSpot)

\* A remove has just returned true while a truck and another vehicle stay parked.
C1_Witness ==
  /\ \E t \in Threads : pc[t] = "unlock" /\ result[t].msg = "removed"
  /\ Cardinality(DOMAIN vehicleLocations) >= 2
  /\ \E p \in DOMAIN vehicleLocations : Len(vehicleLocations[p].second) = 2

\* C2: park of an absent plate, when some floor has the required contiguous free
\* spots, returns the lowest such floor and the spots starting at the smallest
\* index that fits there: a function of the lot before the call and the class.
C2_ParkIsFirstFit ==
  \A t \in Threads :
    LET k == RequiredCount(op[t].type)
        before == pre[t].lot
        f == Min(FitFloors(before.floors, k))
        j == Min(FitStarts(before.floors[f], k))
        I == [d \in 1..k |-> j + d - 1]
    IN (/\ ParkReturns(t)
        /\ op[t].plate \notin DOMAIN before.vehicleLocations
        /\ FitFloors(before.floors, k) # {})
       => /\ result[t] = ReturnedAt(TRUE, "parked", f, I)
          /\ op[t].plate \in DOMAIN vehicleLocations
          /\ vehicleLocations[op[t].plate] = [first |-> f, second |-> I]

\* A truck is parked on a higher floor although floor 0 had two free spots.
C2_Witness ==
  \E t \in Threads :
    /\ ParkReturns(t) /\ result[t].msg = "parked"
    /\ result[t].floor > 0
    /\ Len(result[t].spots) = 2
    /\ availableSpotsCount(pre[t].lot.floors[0]) >= 2

\* C3: every entry of vehicleLocations lists as many spots as the class recorded in
\* vehiclesMap requires, distinct, ascending and on the floor; a truck's two
\* indices differ by one.
C3_EntryShape ==
  Completed =>
    \A p \in DOMAIN vehicleLocations :
      LET e == vehicleLocations[p]
          I == e.second
      IN /\ p \in DOMAIN vehiclesMap
         /\ Len(I) = RequiredCount(vehiclesMap[p].type)
         /\ e.first \in DOMAIN floors
         /\ \A k \in 1..Len(I) : I[k] \in DOMAIN floors[e.first]
         /\ \A k \in 1..(Len(I) - 1) : I[k] < I[k + 1]
         /\ vehiclesMap[p].type = "Truck" => (Len(I) = 2 /\ I[2] = I[1] + 1)
         /\ vehiclesMap[p].type \in {"Bike", "Car"} => Len(I) = 1

\* A truck, a bike and a car are parked together.
C3_Witness ==
  /\ Completed
  /\ \A ty \in VehicleType :
       \E p \in DOMAIN vehicleLocations :
         p \in DOMAIN vehiclesMap /\ vehiclesMap[p].type = ty

\* C4: park returns Full iff the plate is absent and no single floor has the
\* required contiguous free spots; a Full park changes nothing.
C4_FullIffNoFit ==
  \A t \in Threads :
    ParkReturns(t) =>
      /\ (result[t].msg = "full")
           <=> (/\ op[t].plate \notin DOMAIN pre[t].lot.vehicleLocations
                /\ FitFloors(pre[t].lot.floors, RequiredCount(op[t].type)) = {})
      /\ result[t].msg = "full" => (result[t] = Returned(FALSE, "full") /\ Lot = pre[t].lot)

\* A truck is refused although one floor has two free spots (not adjacent) and the
\* other floor a free spot too.
C4_Witness ==
  \E t \in Threads :
    /\ ParkReturns(t) /\ result[t].msg = "full" /\ op[t].type = "Truck"
    /\ \E f \in DOMAIN floors : availableSpotsCount(floors[f]) >= 2
    /\ \A f \in DOMAIN floors : availableSpotsCount(floors[f]) >= 1
    /\ NumFloors >= 2

\* C5: park of a plate that is already in vehicleLocations is refused as a
\* duplicate, whatever the class and the free capacity, and changes nothing.
C5_DuplicateRejected ==
  \A t \in Threads :
    (ParkReturns(t) /\ op[t].plate \in DOMAIN pre[t].lot.vehicleLocations)
      => /\ result[t] = Returned(FALSE, "already parked")
         /\ Lot = pre[t].lot

\* A parked plate is presented again with another class while a fit exists.
C5_Witness ==
  \E t \in Threads :
    /\ ParkReturns(t) /\ result[t].msg = "already parked"
    /\ vehiclesMap[op[t].plate].type # op[t].type
    /\ FitFloors(floors, RequiredCount(op[t].type)) # {}

\* C6: remove of a plate that is not in vehicleLocations returns NotFound and
\* changes nothing, a second remove of a plate just removed included.
C6_RemoveAbsent ==
  \A t \in Threads :
    (RemoveReturns(t) /\ op[t].plate \notin DOMAIN pre[t].lot.vehicleLocations)
      => /\ result[t] = Returned(FALSE, "not found")
         /\ Lot = pre[t].lot

\* The plate was parked, removed, and is now removed a second time.
C6_Witness ==
  \E t \in Threads :
    /\ RemoveReturns(t) /\ result[t].msg = "not found"
    /\ rt.stage = "removing again" /\ rt.plate = op[t].plate
    /\ DOMAIN vehicleLocations # {}

\* C7: a successful park of p directly followed by remove(p) leaves the lot exactly
\* as it was before the park: spots, both maps and the free count of every floor.
C7_ParkRemoveRoundTrip ==
  /\ rt.stage # "not removed"
  /\ rt.stage = "removed" =>
       /\ Lot = rt.lot
       /\ \A f \in DOMAIN floors :
            availableSpotsCount(floors[f]) = availableSpotsCount(rt.lot.floors[f])

\* The round trip was made in a lot where other vehicles are parked.
C7_Witness ==
  /\ rt.stage = "removed"
  /\ Cardinality(DOMAIN rt.lot.vehicleLocations) >= 2
  /\ \E f \in DOMAIN floors : availableSpotsCount(floors[f]) >= 2

\* C8: after every completed operation vehicleLocations and vehiclesMap have the
\* same keys, and a plate is a key iff it occupies a spot.
C8_SameKeySet ==
  Completed =>
    /\ DOMAIN vehicleLocations = DOMAIN vehiclesMap
    /\ \A p \in Plates :
         (p \in DOMAIN vehiclesMap)
           <=> (\E f \in DOMAIN floors : \E i \in DOMAIN floors[f] : Occupied(f, i, p))

\* One plate has been removed while another is still parked.
C8_Witness ==
  /\ \E t \in Threads : pc[t] = "idle" /\ result[t].msg = "removed"
                        /\ op[t].plate \notin DOMAIN vehiclesMap
  /\ DOMAIN vehiclesMap # {}

\* Two park calls of one plate that overlapped, a's taking the lock directly before
\* b's, on a lot where the plate was absent and both classes had a fit.
RacingParks(a, b) ==
  /\ a # b /\ HasReturned(a) /\ HasReturned(b)
  /\ op[a].name = "park" /\ op[b].name = "park" /\ op[a].plate = op[b].plate
  /\ b \in overlap[a]
  /\ prevLocker[b] = a
  /\ atLock[a].absent
  /\ {op[a].type, op[b].type} \subseteq atLock[a].fits

\* C9: two concurrent park calls of the same plate, absent before and with a fit for
\* both, give one Parked and one DuplicatePlate, never two Parked; the plate
\* occupies the spots of the successful park only.
C9_OneParkedOneDuplicate ==
  \A a, b \in Threads :
    RacingParks(a, b) =>
      /\ result[a].ret /\ result[a].msg = "parked"
      /\ result[b] = Returned(FALSE, "already parked")
      /\ lastLocker = b =>
           /\ op[a].plate \in DOMAIN vehicleLocations
           /\ vehicleLocations[op[a].plate] =
                [first |-> result[a].floor, second |-> result[a].spots]
           /\ \A f \in DOMAIN floors : \A i \in DOMAIN floors[f] :
                Occupied(f, i, op[a].plate)
                  <=> (f = result[a].floor /\ i \in Range(result[a].spots))

\* The two calls presented different classes, and both have returned to their callers.
C9_Witness ==
  \E a, b \in Threads :
    /\ RacingParks(a, b)
    /\ op[a].type # op[b].type
    /\ "Truck" \in {op[a].type, op[b].type}
    /\ pc[a] = "idle" /\ pc[b] = "idle"

\* The threads that have made their call.
Launched == {t \in Threads : op[t].name # "none"}

Capacity == NumFloors * Cardinality(DOMAIN floors[0])

\* On the lot, empty at the start, exactly the calls of Launched were made: parks of
\* distinct plates, each overlapping every other, all returned, no more of them than
\* the lot has spots.
ParallelParks ==
  /\ Launched # {}
  /\ \A t \in Launched : op[t].name = "park" /\ pc[t] = "idle" /\ result[t].msg # "none"
  /\ \A a, b \in Launched : a # b => (op[a].plate # op[b].plate /\ b \in overlap[a])
  /\ Capacity >= Cardinality(Launched)

AllParked ==
  /\ \A t \in Launched : result[t].ret /\ result[t].msg = "parked"
  /\ Cardinality(DOMAIN vehicleLocations) = Cardinality(Launched)
  /\ DOMAIN vehicleLocations = {op[t].plate : t \in Launched}
  /\ IndexMatchesSpots
  /\ NoSharedSpot

\* C10 as stated: N parallel parks of distinct plates, vehicles of any class, on an
\* empty lot with capacity >= N all succeed, with a coherent index of size N and no
\* spot shared.
C10_AnyClassAllParked == ParallelParks => AllParked

\* C10 as amended: the same for N vehicles that each need one spot (Bike or Car).
C10_OneSpotVehiclesAllParked ==
  (ParallelParks /\ \A t \in Launched : op[t].type \in {"Bike", "Car"}) => AllParked

\* Every thread parked a one-spot vehicle and the lot had exactly as many spots.
C10_Witness ==
  /\ ParallelParks
  /\ Launched = Threads
  /\ \A t \in Launched : op[t].type \in {"Bike", "Car"}
  /\ Capacity = Cardinality(Launched)
  /\ AllParked

\* The thread is inside a public method: past lock_guard's constructor, its
\* destructor not yet run.
Inside(t) == pc[t] \notin {"idle", "lock", "crashed"}

\* The first step of each public method after it has taken the lock.
EntryPcs == {"park_check", "remove_lookup", "available", "is_full", "find"}

\* No transitional state: spots and index agree, the two maps have the same keys,
\* and every plate holds as many spots as its class requires.
Settled ==
  /\ IndexMatchesSpots
  /\ NoSharedSpot
  /\ DOMAIN vehicleLocations = DOMAIN vehiclesMap
  /\ \A p \in DOMAIN vehicleLocations :
       p \in DOMAIN vehiclesMap
         => Len(vehicleLocations[p].second) = RequiredCount(vehiclesMap[p].type)

\* C11: a thread inside a public method holds mtx, so at most one thread is inside;
\* the spots a park found are still what the floor offers when it commits them; a
\* method starts on a settled lot, and a transitional state (spots assigned to a
\* plate not yet in the index, an entry whose spots are already released) exists
\* only while the thread that made it is still inside, holding mtx.
C11_LockHeldThroughout ==
  /\ \A t \in Threads : Inside(t) => mtx = t
  /\ \A t, u \in Threads : (Inside(t) /\ Inside(u)) => t = u
  /\ \A t \in Threads :
       pc[t] = "park_commit"
         => local[t].availableSpots = findAvailableSpots(floors[local[t].fi], Vehicle(t))
  /\ \A t \in Threads : pc[t] \in EntryPcs => Settled
  /\ ~Settled => \E t \in Threads : mtx = t /\ pc[t] \in {"park_index", "remove_erase"}

\* A truck's two spots are assigned and its plate is not yet in the index, while
\* another thread waits for the lock to look that plate up.
C11_Witness ==
  \E t, u \in Threads :
    /\ pc[t] = "park_index" /\ op[t].type = "Truck"
    /\ op[t].plate \notin DOMAIN vehicleLocations
    /\ ~Settled
    /\ pc[u] = "lock" /\ op[u].name = "find" /\ op[u].plate = op[t].plate

\* main has returned and the lot is destroyed.
Exited == \A t \in Threads : pc[t] = "exited"

\* C12: after shutdown the floors and their spots are gone, and no Vehicle that park
\* handed to the lot is still allocated, vehicles still parked at shutdown included.
C12_ShutdownFreesVehicles == Exited => (DOMAIN floors = {} /\ heap = {})

\* C13: on every floor the constructor can build, one without spots included,
\* findAvailableSpots reads only spots of the floor and proposes either nothing or
\* as many free spots of the floor as the class requires; no call fails, and park of
\* a truck on a lot whose floors have no spots returns Full.
C13_FindNeverFails ==
  \A t \in Threads :
    /\ pc[t] # "crashed"
    /\ pc[t] = "park_find" => ~ReadsOutOfRange(floors[local[t].fi], Vehicle(t))
    /\ pc[t] = "park_commit" =>
         /\ Len(local[t].availableSpots) = RequiredCount(op[t].type)
         /\ \A k \in 1..Len(local[t].availableSpots) :
              /\ local[t].availableSpots[k] \in DOMAIN floors[local[t].fi]
              /\ ~floors[local[t].fi][local[t].availableSpots[k]].isOccupied
    /\ (/\ ParkReturns(t) /\ op[t].type = "Truck"
        /\ \A f \in DOMAIN floors : Size(floors[f]) = 0)
         => result[t] = Returned(FALSE, "full")

IsFullReturns(t) == pc[t] = "unlock" /\ op[t].name = "isFull" /\ pre[t].valid

\* The free count of a floor: its spots that hold no vehicle.
FreeCount(floor) == Cardinality({i \in DOMAIN floor : floor[i].isOccupied = FALSE})

\* C14: isFull returns true iff the free count of every floor is zero, so true for
\* a lot without floors, and leaves the lot as it was.
C14_IsFullIffNoFreeSpot ==
  \A t \in Threads :
    IsFullReturns(t) =>
      /\ result[t].msg = "is full"
      /\ result[t].ret <=> \A f \in DOMAIN floors : FreeCount(floors[f]) = 0
      /\ NumFloors = 0 => result[t].ret
      /\ Lot = pre[t].lot

\* isFull answers false on a lot whose first floor is full, with a truck on it, and
\* whose last floor has a free spot.
C14_Witness ==
  \E t \in Threads :
    /\ IsFullReturns(t) /\ ~result[t].ret
    /\ NumFloors >= 2
    /\ FreeCount(floors[0]) = 0
    /\ \E p \in DOMAIN vehiclesMap :
         vehiclesMap[p].type = "Truck" /\ vehicleLocations[p].first = 0
    /\ FreeCount(floors[NumFloors - 1]) = 1

\* A park and a remove of one plate whose calls overlapped and took the lock one
\* directly after the other; both have returned.
RacingParkRemove(pk, rm) ==
  /\ pk # rm /\ HasReturned(pk) /\ HasReturned(rm)
  /\ op[pk].name = "park" /\ op[rm].name = "remove" /\ op[pk].plate = op[rm].plate
  /\ rm \in overlap[pk]
  /\ prevLocker[pk] = rm \/ prevLocker[rm] = pk

\* The plate was absent when the first of the two calls took the lock.
WasAbsent(pk, rm) == IF prevLocker[pk] = rm THEN atLock[rm].absent ELSE atLock[pk].absent

\* A floor had the spots the park's class requires when the park took the lock.
HadFit(pk) == op[pk].type \in atLock[pk].fits

\* The park returned Parked, and at the first fit of the lot as it took the lock.
ParkedAtFirstFit(pk) ==
  /\ result[pk].ret /\ result[pk].msg = "parked"
  /\ pc[pk] = "unlock" =>
       LET k == RequiredCount(op[pk].type)
           f == Min(FitFloors(pre[pk].lot.floors, k))
           j == Min(FitStarts(pre[pk].lot.floors[f], k))
       IN result[pk] = ReturnedAt(TRUE, "parked", f, [d \in 1..k |-> j + d - 1])

\* Nothing has taken the lock since the two calls: the plate is parked or not as
\* wanted, and the lot is settled once both calls are over.
EndsWith(pk, rm, parked) ==
  (lastLocker \in {pk, rm} /\ pc[pk] = "idle" /\ pc[rm] = "idle")
    => /\ (op[pk].plate \in DOMAIN vehicleLocations) <=> parked
       /\ Settled

\* The serial outcomes of remove first, park second.
RemoveThenPark(pk, rm, fit) ==
  /\ IF WasAbsent(pk, rm) THEN result[rm] = Returned(FALSE, "not found")
                          ELSE result[rm].ret /\ result[rm].msg = "removed"
  /\ IF fit THEN ParkedAtFirstFit(pk) ELSE result[pk] = Returned(FALSE, "full")
  /\ EndsWith(pk, rm, fit)

\* The serial outcomes of park first, remove second.
ParkThenRemove(pk, rm, fit) ==
  /\ IF ~WasAbsent(pk, rm)
       THEN /\ result[pk] = Returned(FALSE, "already parked")
            /\ result[rm].ret /\ result[rm].msg = "removed"
       ELSE IF fit
         THEN /\ ParkedAtFirstFit(pk)
              /\ result[rm].ret /\ result[rm].msg = "removed"
         ELSE /\ result[pk] = Returned(FALSE, "full")
              /\ result[rm] = Returned(FALSE, "not found")
  /\ EndsWith(pk, rm, FALSE)

\* C15 as stated: a concurrent park(p) and remove(p) have the serial outcomes of their
\* lock order, in which a park of an absent plate is always Parked.
C15_ParkAlwaysParked ==
  \A pk, rm \in Threads :
    RacingParkRemove(pk, rm) =>
      IF prevLocker[pk] = rm THEN RemoveThenPark(pk, rm, TRUE)
                             ELSE ParkThenRemove(pk, rm, TRUE)

\* C15 as amended: the same, where the park of the absent plate is Parked when a
\* floor has the spots its class requires as it takes the lock, and Full otherwise
\* (the remove that follows a Full park returns NotFound).
C15_SerialOutcomes ==
  \A pk, rm \in Threads :
    RacingParkRemove(pk, rm) =>
      IF prevLocker[pk] = rm THEN RemoveThenPark(pk, rm, HadFit(pk))
                             ELSE ParkThenRemove(pk, rm, HadFit(pk))

\* The plate was parked; its remove took the lock first, and the park of a truck
\* that raced it is returning Parked on the lot the remove left empty.
C15_Witness ==
  \E pk, rm \in Threads :
    /\ RacingParkRemove(pk, rm)
    /\ prevLocker[pk] = rm /\ ~WasAbsent(pk, rm)
    /\ result[rm].msg = "removed"
    /\ pc[pk] = "unlock" /\ result[pk].msg = "parked" /\ op[pk].type = "Truck"
    /\ DOMAIN pre[pk].lot.vehicleLocations = {}

\* C16: remove of a plate that is in vehicleLocations returns true: the floor
\* recorded for it releases exactly the spots listed for it, as many as its class
\* requires, all held by the plate before; the plate is erased from both maps and
\* its Vehicle is deleted. No remove ever takes the path where the floor finds no
\* spot of the plate.
C16_RemovePresentSucceeds ==
  \A t \in Threads :
    /\ result[t].msg # ""
    /\ (RemoveReturns(t) /\ op[t].plate \in DOMAIN pre[t].lot.vehicleLocations) =>
         LET before == pre[t].lot
             p == op[t].plate
             e == before.vehicleLocations[p]
         IN /\ result[t] = ReturnedAt(TRUE, "removed", e.first, <<>>)
            /\ Len(e.second) = RequiredCount(before.vehiclesMap[p].type)
            /\ \A i \in Range(e.second) :
                 before.floors[e.first][i] = [isOccupied |-> TRUE, parkedVehicle |-> p]
            /\ floors = [before.floors EXCEPT ![e.first] =
                           [i \in DOMAIN @ |-> IF i \in Range(e.second) THEN FreeSpot
                                                ELSE @[i]]]
            /\ vehicleLocations = MapErase(before.vehicleLocations, p)
            /\ vehiclesMap = MapErase(before.vehiclesMap, p)
            /\ p \in before.heap /\ heap = before.heap \ {p}

\* A truck is removed from beside another vehicle of its floor, the one spot of the
\* floor that stays occupied.
C16_Witness ==
  \E t \in Threads :
    /\ RemoveReturns(t) /\ result[t].msg = "removed"
    /\ pre[t].lot.vehiclesMap[op[t].plate].type = "Truck"
    /\ LET I == pre[t].lot.vehicleLocations[op[t].plate].second
           f == result[t].floor
       IN /\ (I[2] + 1) \in DOMAIN floors[f] /\ floors[f][I[2] + 1].isOccupied
          /\ FreeCount(floors[f]) = Size(floors[f]) - 1

FloorParkReturns(t) == pc[t] = "floor_done" /\ pre[t].valid

\* The list names a spot that is not on the floor, or one that is not free.
BadList(floor, spotNumbers) ==
  \E k \in 1..Len(spotNumbers) :
    spotNumbers[k] \notin DOMAIN floor \/ floor[spotNumbers[k]].isOccupied = TRUE

\* C17: Floor::parkVehicle with a list naming a spot that is off the floor or not
\* free returns false and changes no spot; with any other list it returns true,
\* every listed spot is then occupied by the plate and no other spot has changed.
C17_CommitAllOrNothing ==
  \A t \in Threads :
    FloorParkReturns(t) =>
      LET before == pre[t].lot.floors[0]
          I == local[t].availableSpots
      IN IF BadList(before, I)
           THEN ~result[t].ret /\ floors[0] = before
           ELSE /\ result[t].ret
                /\ DOMAIN floors[0] = DOMAIN before
                /\ \A i \in DOMAIN before :
                     floors[0][i] = IF i \in Range(I)
                                      THEN [isOccupied |-> TRUE, parkedVehicle |-> op[t].plate]
                                      ELSE before[i]

\* A list whose first spot is free and whose second is held by another plate was
\* refused, and the first spot is still free.
C17_Witness ==
  \E t \in Threads :
    /\ FloorParkReturns(t) /\ ~result[t].ret
    /\ Len(local[t].availableSpots) = 2
    /\ LET I == local[t].availableSpots IN
         /\ I[1] \in DOMAIN floors[0] /\ I[2] \in DOMAIN floors[0]
         /\ ~floors[0][I[1]].isOccupied
         /\ floors[0][I[2]].isOccupied /\ floors[0][I[2]].parkedVehicle # op[t].plate

\* The spots of the floors fl that plate q occupies.
SpotsOf(fl, q) ==
  {s \in UNION {{<<f, i>> : i \in DOMAIN fl[f]} : f \in DOMAIN fl} :
     fl[s[1]][s[2]].isOccupied /\ fl[s[1]][s[2]].parkedVehicle = q}

\* What the map m holds for key q, if anything.
EntryFor(m, q) == IF q \in DOMAIN m THEN <<m[q]>> ELSE <<>>

\* Between the lot l and the present one nothing of plate q has changed.
Untouched(l, q) ==
  /\ EntryFor(vehicleLocations, q) = EntryFor(l.vehicleLocations, q)
  /\ EntryFor(vehiclesMap, q) = EntryFor(l.vehiclesMap, q)
  /\ (q \in heap) <=> (q \in l.heap)
  /\ SpotsOf(floors, q) = SpotsOf(l.floors, q)

\* C18: a park or a remove of plate p, whatever it returns, leaves the entries and
\* the spots of every other plate as they were, so that every parked plate is
\* recorded where its park reported it; the three queries leave the whole lot as it
\* was, and find of a parked plate reports the floor and spots its park reported.
C18_OtherPlatesUntouched ==
  /\ \A t \in Threads :
       (pc[t] = "unlock" /\ pre[t].valid) =>
         /\ op[t].name \in {"park", "remove"} =>
              \A q \in Plates \ {op[t].plate} : Untouched(pre[t].lot, q)
         /\ op[t].name \in {"available", "isFull", "find"} => Lot = pre[t].lot
         /\ op[t].name = "find" =>
              IF op[t].plate \in DOMAIN parkedAt
                THEN result[t] = ReturnedAt(TRUE, "found", parkedAt[op[t].plate].floor,
                                            parkedAt[op[t].plate].spots)
                ELSE result[t] = Returned(FALSE, "not found")
  /\ Completed =>
       /\ DOMAIN vehicleLocations = DOMAIN parkedAt
       /\ \A p \in DOMAIN vehicleLocations :
            /\ vehicleLocations[p] = [first |-> parkedAt[p].floor, second |-> parkedAt[p].spots]
            /\ SpotsOf(floors, p) = {<<parkedAt[p].floor, i>> : i \in Range(parkedAt[p].spots)}

\* find reports a truck on an upper floor, where its park put it, after the
\* vehicles that filled the first floor have been removed.
C18_Witness ==
  \E t \in Threads :
    /\ pc[t] = "unlock" /\ op[t].name = "find" /\ result[t].msg = "found"
    /\ result[t].floor > 0 /\ Len(result[t].spots) = 2
    /\ FreeCount(floors[0]) = Size(floors[0])

\* C19: on a lot whose floors have spots, a park of an absent plate returns Full
\* whenever isFull holds of the lot, and parks a Bike or a Car whenever it does not;
\* a Truck may be refused although isFull does not hold.
C19_IsFullAgreesWithPark ==
  \A t \in Threads :
    (/\ ParkReturns(t)
     /\ op[t].plate \notin DOMAIN pre[t].lot.vehicleLocations
     /\ \A f \in DOMAIN floors : Size(floors[f]) >= 1)
      => /\ isFull(pre[t].lot.floors) => result[t] = Returned(FALSE, "full")
         /\ (~isFull(pre[t].lot.floors) /\ op[t].type \in {"Bike", "Car"})
              => (result[t].ret /\ result[t].msg = "parked")

\* isFull does not hold, each floor keeping one free spot, and a Truck is refused;
\* a Bike would be parked.
C19_Witness ==
  \E t \in Threads :
    /\ ParkReturns(t) /\ op[t].type = "Truck" /\ result[t].msg = "full"
    /\ ~isFull(pre[t].lot.floors)
    /\ \A f \in DOMAIN floors : FreeCount(floors[f]) = 1 /\ Size(floors[f]) >= 2
    /\ FitFloors(floors, 1) # {}

\* mtx is held by a thread inside a method or by none; a thread inside a method has
\* a next step; while a call is under way some thread can take the lock or step.
NeverStuck ==
  /\ \A t \in Workers : mtx = t => Inside(t)
  /\ \A t \in Workers : Inside(t) => ENABLED Step(t)
  /\ (\E t \in Workers : pc[t] # "idle")
       => \E u \in Workers : ENABLED (Lock(u) \/ Step(u))

\* C20: a thread that is not inside a method does not hold mtx, so every return
\* path has released it; a thread inside a method can always take its next step,
\* and while a call is under way some thread can; every call that has been made
\* returns to its caller.
C20_EveryCallReturns ==
  /\ []NeverStuck
  /\ \A t \in Workers : (pc[t] = "lock") ~> (pc[t] = "idle" /\ result[t].msg # "none")

\* A call returned by an error path, no floor having room for its truck, and the
\* thread that waited for the lock meanwhile is now inside its own call.
C20_Witness ==
  \E t, u \in Workers :
    /\ pc[t] = "idle" /\ result[t].msg = "full"
    /\ u \in overlap[t] /\ prevLocker[u] = t
    /\ Inside(u) /\ mtx = u

====
